---- MODULE Spec2Model ----
(***************************************************************************)
(* Model of the shketch drawing core: Point / Cell / Segment, the Tracer   *)
(* and the Canvas state machine, together with the byte sink the Canvas    *)
(* writes to.  The sink is modelled by the sequence of calls the most      *)
(* recent Canvas operation made on it (out) and by the glyph the terminal  *)
(* shows at every position once those calls are applied (term).  A sink    *)
(* call may fail; the operation then returns Err at that call.             *)
(***************************************************************************)
EXTENDS Integers, Sequences, FiniteSets, TLC

\* ------------------------------------------------------------------ bounds
MaxBase == 2        \* committed segments kept in base
MaxSketch == 4      \* cells a Plot stroke may accumulate in sketch
MaxFail == 1        \* a failing sink fails at call 1..MaxFail of an operation
MaxOps == 5         \* operations performed on one Canvas
Near == 4           \* coordinates within Near of either end of the u16 range
MaxCells == 2       \* cells of a segment converted into a String
Span == 1           \* the cells of such a segment lie within Span of its origin

\* --------------------------------------------------------- program constants
U16 == 65536
TOOLBAR_BOUNDARY == 3

\* ------------------------------------------------------------------- Point
Point(x, y) == [x |-> x, y |-> y]

PointDefault == Point(1, 1)

move_up(p) == [p EXCEPT !.y = (p.y - 1) % U16]

move_down(p) == [p EXCEPT !.y = (p.y + 1) % U16]

move_left(p) == [p EXCEPT !.x = (p.x - 1) % U16]

move_right(p) == [p EXCEPT !.x = (p.x + 1) % U16]

\* -------------------------------------------------------- Cell and Segment
Cell(pos, content) == [pos |-> pos, content |-> content]

SegmentNew == << >>

add(segment, cell) == Append(segment, cell)

add_assign(lhs, rhs) == lhs \o rhs

RECURSIVE from_str_at(_, _, _)
from_str_at(cursor, str, cells) ==
    IF str = << >> THEN cells
    ELSE from_str_at(move_right(cursor), Tail(str), Append(cells, Cell(cursor, Head(str))))

from_str(start, str) == from_str_at(start, str, << >>)

\* ------------------------------------------------------- CharSet and Tracer
\* The slot of the char set CharSet::next selects for a step from -> to.
next_slot(from, to) ==
    IF from.x = to.x /\ from.y < to.y THEN "up"
    ELSE IF from.x = to.x /\ from.y > to.y THEN "down"
    ELSE IF from.x < to.x /\ from.y = to.y THEN "left"
    ELSE IF from.x > to.x /\ from.y = to.y THEN "right"
    ELSE IF (from.x > to.x /\ from.y > to.y) \/ (from.x < to.x /\ from.y < to.y)
         THEN "diagonal_back"
    ELSE IF (from.x > to.x /\ from.y < to.y) \/ (from.x < to.x /\ from.y > to.y)
         THEN "diagonal_forward"
    ELSE "stationary"

\* Mutant of CharSetDefault: the two diagonal glyphs are exchanged.
CharSetDefault_diagonals_exchanged ==
    [stationary |-> ".", up |-> "|", down |-> "|", left |-> "_", right |-> "_",
     diagonal_back |-> "/", diagonal_forward |-> "\\"]

CharSetDefault ==
    [stationary |-> ".", up |-> "|", down |-> "|", left |-> "_", right |-> "_",
     diagonal_back |-> "\\", diagonal_forward |-> "/"]

next(from, to) == CharSetDefault[next_slot(from, to)]

\* Mutant of connect_step: the two arms of the y comparison are exchanged.
connect_step_y_reversed(cursor, to) ==
    LET c1 == IF cursor.y > to.y THEN move_down(cursor)
              ELSE IF cursor.y < to.y THEN move_up(cursor)
              ELSE cursor
    IN  IF c1.x > to.x THEN move_left(c1)
        ELSE IF c1.x < to.x THEN move_right(c1)
        ELSE c1

\* Mutant of connect_step: one axis per iteration, y first.
connect_step_one_axis(cursor, to) ==
    IF cursor.y > to.y THEN move_up(cursor)
    ELSE IF cursor.y < to.y THEN move_down(cursor)
    ELSE IF cursor.x > to.x THEN move_left(cursor)
    ELSE IF cursor.x < to.x THEN move_right(cursor)
    ELSE cursor

\* One iteration of the loop of Tracer::connect: the cursor after the move.
connect_step(cursor, to) ==
    LET c1 == IF cursor.y > to.y THEN move_up(cursor)
              ELSE IF cursor.y < to.y THEN move_down(cursor)
              ELSE cursor
    IN  IF c1.x > to.x THEN move_left(c1)
        ELSE IF c1.x < to.x THEN move_right(c1)
        ELSE c1

RECURSIVE connect_loop(_, _, _)
connect_loop(cursor, to, segment) ==
    IF cursor = to THEN segment
    ELSE LET moved == connect_step(cursor, to)
         IN  connect_loop(moved, to, add(segment, Cell(moved, next(cursor, moved))))

connect(from, to) == connect_loop(from, to, SegmentNew)

\* ------------------------------------------------------------------ inputs
\* Positions the mouse events carry: the points of the documented scenarios,
\* one point inside the reserved rows and one on the boundary row.
PressPoints == {Point(5, 5), Point(2, 5), Point(5, 1)}

DragPoints == {Point(8, 5), Point(6, 5), Point(6, 8), Point(6, 2), Point(3, 3)}

\* Segments handed to pin.
Overlays == {SegmentNew, from_str(Point(6, 5), <<"A", "B">>)}

Styles == {"Plot", "Line"}

FailAt == 0..MaxFail

\* The terminal: every position an input can make the Canvas write to.
InputPoints == PressPoints \cup DragPoints \cup {PointDefault}

Max(S) == CHOOSE n \in S : \A m \in S : m <= n

Screen ==
    {Point(x, y) : x \in 1..Max({p.x : p \in InputPoints}),
                   y \in 1..Max({p.y : p \in InputPoints})}

BlankScreen == [p \in Screen |-> " "]

\* -------------------------------------------------------------------- sink
Put(cell) == [op |-> "put", pos |-> cell.pos, ch |-> cell.content]

Flush == [op |-> "flush", pos |-> PointDefault, ch |-> ""]

Goto(x, y) == [op |-> "goto", pos |-> Point(x, y), ch |-> ""]

ClearAll == [op |-> "clear_all", pos |-> PointDefault, ch |-> ""]

CursorHide == [op |-> "hide", pos |-> PointDefault, ch |-> ""]

CursorShow == [op |-> "show", pos |-> PointDefault, ch |-> ""]

\* Call number n of an operation succeeds unless the sink fails at call f
\* (f = 0: the sink does not fail during this operation).
Accepts(f, n) == f = 0 \/ n < f

\* What the terminal shows after one accepted sink call.
Show(t, call) ==
    IF call.op = "put" /\ call.pos \in Screen THEN [t EXCEPT ![call.pos] = call.ch]
    ELSE IF call.op = "clear_all" THEN BlankScreen
    ELSE t

RECURSIVE ShowAll(_, _)
ShowAll(t, calls) ==
    IF calls = << >> THEN t ELSE ShowAll(Show(t, Head(calls)), Tail(calls))

\* write!(writer, "{}", cells) where `done` sink calls were already made:
\* the cells are written in order up to the first failing call.
RECURSIVE write_cells(_, _, _)
write_cells(cells, f, done) ==
    IF cells = << >> THEN [out |-> << >>, ok |-> TRUE]
    ELSE IF ~Accepts(f, done + 1) THEN [out |-> << >>, ok |-> FALSE]
    ELSE LET rest == write_cells(Tail(cells), f, done + 1)
         IN  [out |-> <<Put(Head(cells))>> \o rest.out, ok |-> rest.ok]

\* impl Erase for Cell: the content is blanked, then the cell is written.
erase_cell(cell, f, done) ==
    LET blank == [cell EXCEPT !.content = " "]
    IN  [cell |-> blank,
         out |-> IF Accepts(f, done + 1) THEN <<Put(blank)>> ELSE << >>,
         ok |-> Accepts(f, done + 1)]

\* Mutant of erase_segment: the result of each cell's write is dropped.
RECURSIVE erase_segment_lenient(_, _, _)
erase_segment_lenient(cells, f, done) ==
    IF cells = << >> THEN [cells |-> << >>, out |-> << >>, ok |-> TRUE]
    ELSE LET first == erase_cell(Head(cells), f, done)
             rest == erase_segment_lenient(Tail(cells), f, done + 1)
         IN  [cells |-> <<first.cell>> \o rest.cells,
              out |-> first.out \o rest.out,
              ok |-> TRUE]

\* impl Erase for Segment: erase every cell in order, stop at the first error.
RECURSIVE erase_segment(_, _, _)
erase_segment(cells, f, done) ==
    IF cells = << >> THEN [cells |-> << >>, out |-> << >>, ok |-> TRUE]
    ELSE LET first == erase_cell(Head(cells), f, done)
         IN  IF ~first.ok
             THEN [cells |-> <<first.cell>> \o Tail(cells), out |-> << >>, ok |-> FALSE]
             ELSE LET rest == erase_segment(Tail(cells), f, done + 1)
                  IN  [cells |-> <<first.cell>> \o rest.cells,
                       out |-> first.out \o rest.out,
                       ok |-> rest.ok]

\* ------------------------------------------------------------------- state
VARIABLES
    variant,    \* which Canvas of the repository: "tui" or "grid"
    style,      \* Canvas.style
    base,       \* Canvas.base: sequence of committed segments
    overlay,    \* Canvas.overlay
    sketch,     \* Canvas.sketch
    cursor,     \* Canvas.cursor
    term,       \* glyph the sink shows at every position
    out,        \* sink calls made by the most recent operation, in order
    result,     \* what the most recent operation returned: "Ok" or "Err"
    op,         \* the most recent operation and the position it was given
    ops,        \* number of operations performed so far
    tracer,     \* one call of Tracer::connect, iteration by iteration
    block       \* one conversion of a Segment into a String

vars ==
    <<variant, style, base, overlay, sketch, cursor, term, out, result, op, ops,
      tracer, block>>

\* The fields of the Canvas and of its sink.
canvasVars == <<variant, style, base, overlay, sketch, cursor, term, out, result, op, ops>>

\* No conversion of a Segment into a String is being followed.
BlockIdle == [pc |-> "idle", segment |-> SegmentNew, output |-> << >>]

\* No call of Tracer::connect is being followed.
TracerIdle ==
    [pc |-> "idle", from |-> PointDefault, to |-> PointDefault, cursor |-> PointDefault,
     segment |-> SegmentNew, slots |-> << >>, iters |-> 0, wrapped |-> FALSE]

Op(name, pos) == [name |-> name, pos |-> pos]

\* Canvas::new
Init ==
    /\ variant \in {"tui", "grid"}
    /\ style = "Plot"
    /\ base = << >>
    /\ overlay = SegmentNew
    /\ sketch = SegmentNew
    /\ cursor = PointDefault
    /\ term = BlankScreen
    /\ out = << >>
    /\ result = "Ok"
    /\ op = Op("new", PointDefault)
    /\ ops = 0
    /\ tracer = TracerIdle
    /\ block = BlockIdle

\* The operation made the sink calls `calls` and returned `res`.
Returns(calls, res) ==
    /\ out' = calls
    /\ term' = ShowAll(term, calls)
    /\ result' = res

\* The operation `name` was called with position `pos`; a dropped Canvas
\* takes no further call.
Called(name, pos) ==
    /\ op.name # "drop"
    /\ ops < MaxOps
    /\ ops' = ops + 1
    /\ op' = Op(name, pos)
    /\ UNCHANGED <<tracer, block>>

\* -------------------------------------------------------------- operations
\* Mutant of pin: the new overlay is rendered at once.
pin_rendering(o) ==
    /\ overlay' = o
    /\ Returns([i \in 1..Len(o) |-> Put(o[i])], "Ok")
    /\ Called("pin", PointDefault)
    /\ UNCHANGED <<variant, style, base, sketch, cursor>>

\* Canvas::pin
pin(o) ==
    /\ overlay' = o
    /\ Returns(<< >>, "Ok")
    /\ Called("pin", PointDefault)
    /\ UNCHANGED <<variant, style, base, sketch, cursor>>

\* Canvas::alt_style
alt_style(s) ==
    /\ style' = s
    /\ Returns(<< >>, "Ok")
    /\ Called("alt_style", PointDefault)
    /\ UNCHANGED <<variant, base, overlay, sketch, cursor>>

move_to(p, x, y) == [p EXCEPT !.x = x, !.y = y]

\* Canvas::update, MouseAction::Press / MouseEvent::Press
update_Press(p) ==
    /\ cursor' = move_to(cursor, p.x, p.y)
    /\ Returns(<< >>, "Ok")
    /\ Called("press", p)
    /\ UNCHANGED <<variant, style, base, overlay, sketch>>

\* Mutant of drag_Plot: the new trace replaces the sketch.
drag_Plot_replacing(p) ==
    /\ sketch' = connect(cursor, p)
    /\ cursor' = move_to(cursor, p.x, p.y)
    /\ Returns(<< >>, "Ok")

\* The Plot arm of a drag.
drag_Plot(p) ==
    /\ sketch' = add_assign(sketch, connect(cursor, p))
    /\ cursor' = move_to(cursor, p.x, p.y)
    /\ Returns(<< >>, "Ok")

\* Mutant of drag_Line: the anchor follows the pointer as in Plot style.
drag_Line_advancing(p, f) ==
    LET erased == erase_segment(sketch, f, 0)
    IN  /\ sketch' = IF erased.ok THEN connect(cursor, p) ELSE erased.cells
        /\ cursor' = IF erased.ok THEN move_to(cursor, p.x, p.y) ELSE cursor
        /\ Returns(erased.out, IF erased.ok THEN "Ok" ELSE "Err")

\* Mutant of drag_Line: the old line is dropped without being erased.
drag_Line_unerased(p, f) ==
    /\ sketch' = connect(cursor, p)
    /\ cursor' = cursor
    /\ Returns(<< >>, "Ok")

\* The Line arm of a drag: erase the sketch, then replace it.
drag_Line(p, f) ==
    LET erased == erase_segment(sketch, f, 0)
    IN  /\ sketch' = IF erased.ok THEN connect(cursor, p) ELSE erased.cells
        /\ cursor' = cursor
        /\ Returns(erased.out, IF erased.ok THEN "Ok" ELSE "Err")

\* Mutant of update_Drag: the boundary row itself is reserved too.
update_Drag_inclusive(p, f) ==
    /\ Len(connect(cursor, p)) <= MaxSketch
    /\ style = "Plot" => Len(sketch) + Len(connect(cursor, p)) <= MaxSketch
    /\ IF p.y <= TOOLBAR_BOUNDARY
       THEN /\ Returns(<< >>, "Ok")
            /\ UNCHANGED <<sketch, cursor>>
       ELSE IF style = "Plot" THEN drag_Plot(p) ELSE drag_Line(p, f)
    /\ Called("drag", p)
    /\ UNCHANGED <<variant, style, base, overlay>>

\* Canvas::update, MouseAction::Drag / MouseEvent::Hold
update_Drag(p, f) ==
    /\ Len(connect(cursor, p)) <= MaxSketch
    /\ style = "Plot" => Len(sketch) + Len(connect(cursor, p)) <= MaxSketch
    /\ IF p.y < TOOLBAR_BOUNDARY
       THEN /\ Returns(<< >>, "Ok")
            /\ UNCHANGED <<sketch, cursor>>
       ELSE IF style = "Plot" THEN drag_Plot(p) ELSE drag_Line(p, f)
    /\ Called("drag", p)
    /\ UNCHANGED <<variant, style, base, overlay>>

\* Mutant of update_Release: an empty sketch is not committed.
update_Release_nonempty ==
    /\ Len(base) < MaxBase
    /\ base' = IF sketch = SegmentNew THEN base ELSE Append(base, sketch)
    /\ sketch' = SegmentNew
    /\ Returns(<< >>, "Ok")
    /\ Called("release", PointDefault)
    /\ UNCHANGED <<variant, style, overlay, cursor>>

\* Mutant of update_Release: the committed sketch is not emptied.
update_Release_keeping ==
    /\ Len(base) < MaxBase
    /\ base' = Append(base, sketch)
    /\ sketch' = sketch
    /\ Returns(<< >>, "Ok")
    /\ Called("release", PointDefault)
    /\ UNCHANGED <<variant, style, overlay, cursor>>

\* Canvas::update, MouseAction::Release / MouseEvent::Release
update_Release ==
    /\ Len(base) < MaxBase
    /\ base' = Append(base, sketch)
    /\ sketch' = SegmentNew
    /\ Returns(<< >>, "Ok")
    /\ Called("release", PointDefault)
    /\ UNCHANGED <<variant, style, overlay, cursor>>

RECURSIVE Flatten(_)
Flatten(segments) ==
    IF segments = << >> THEN << >> ELSE Head(segments) \o Flatten(Tail(segments))

\* Mutant of draw: the overlay is written before the strokes.
draw_overlay_first(f) ==
    LET written == write_cells(overlay \o Flatten(base) \o sketch, f, 0)
        flushed == written.ok /\ Accepts(f, Len(written.out) + 1)
    IN  /\ Returns(IF flushed THEN Append(written.out, Flush) ELSE written.out,
                   IF flushed THEN "Ok" ELSE "Err")
        /\ Called("draw", PointDefault)
        /\ UNCHANGED <<variant, style, base, overlay, sketch, cursor>>

\* Canvas::draw: base in order, then sketch, then overlay, then one flush.
draw(f) ==
    LET written == write_cells(Flatten(base) \o sketch \o overlay, f, 0)
        flushed == written.ok /\ Accepts(f, Len(written.out) + 1)
    IN  /\ Returns(IF flushed THEN Append(written.out, Flush) ELSE written.out,
                   IF flushed THEN "Ok" ELSE "Err")
        /\ Called("draw", PointDefault)
        /\ UNCHANGED <<variant, style, base, overlay, sketch, cursor>>

\* Canvas::snapshot: a copy of base; the Canvas is not changed.
snapshot == base

\* Mutant of undo: the oldest segment is removed instead of the newest.
undo_oldest(f) ==
    /\ IF base = << >>
       THEN /\ base' = base
            /\ Returns(<< >>, "Ok")
       ELSE LET erased == erase_segment(Head(base), f, 0)
            IN  /\ base' = Tail(base)
                /\ Returns(erased.out, IF erased.ok THEN "Ok" ELSE "Err")
    /\ Called("undo", PointDefault)
    /\ UNCHANGED <<variant, style, overlay, sketch, cursor>>

\* Mutant of undo: nothing to undo is reported as an error.
undo_strict(f) ==
    /\ IF base = << >>
       THEN /\ base' = base
            /\ Returns(<< >>, "Err")
       ELSE LET erased == erase_segment(base[Len(base)], f, 0)
            IN  /\ base' = SubSeq(base, 1, Len(base) - 1)
                /\ Returns(erased.out, IF erased.ok THEN "Ok" ELSE "Err")
    /\ Called("undo", PointDefault)
    /\ UNCHANGED <<variant, style, overlay, sketch, cursor>>

\* Canvas::undo: pop the last segment, then erase it.
undo(f) ==
    /\ IF base = << >>
       THEN /\ base' = base
            /\ Returns(<< >>, "Ok")
       ELSE LET erased == erase_segment(base[Len(base)], f, 0)
            IN  /\ base' = SubSeq(base, 1, Len(base) - 1)
                /\ Returns(erased.out, IF erased.ok THEN "Ok" ELSE "Err")
    /\ Called("undo", PointDefault)
    /\ UNCHANGED <<variant, style, overlay, sketch, cursor>>

\* for segment in &mut self.base { segment.erase(writer)?; }
RECURSIVE erase_all(_, _, _)
erase_all(segments, f, done) ==
    IF segments = << >> THEN [segments |-> << >>, out |-> << >>, ok |-> TRUE]
    ELSE LET first == erase_segment(Head(segments), f, done)
         IN  IF ~first.ok
             THEN [segments |-> <<first.cells>> \o Tail(segments),
                   out |-> first.out, ok |-> FALSE]
             ELSE LET rest == erase_all(Tail(segments), f, done + Len(first.out))
                  IN  [segments |-> <<first.cells>> \o rest.segments,
                       out |-> first.out \o rest.out,
                       ok |-> rest.ok]

\* Mutant of clear_tui: the sketch is emptied without being erased.
clear_tui_base_only(f) ==
    LET eb == erase_all(base, f, 0)
    IN  IF ~eb.ok
        THEN /\ base' = eb.segments
             /\ sketch' = sketch
             /\ Returns(eb.out, "Err")
        ELSE /\ base' = << >>
             /\ sketch' = SegmentNew
             /\ Returns(eb.out, "Ok")

\* Canvas::clear of tui/src/canvas.rs: erase base, empty it, erase sketch,
\* empty it; the first failing erase returns.
clear_tui(f) ==
    LET eb == erase_all(base, f, 0)
        es == erase_segment(sketch, f, Len(eb.out))
    IN  IF ~eb.ok
        THEN /\ base' = eb.segments
             /\ sketch' = sketch
             /\ Returns(eb.out, "Err")
        ELSE /\ base' = << >>
             /\ sketch' = IF es.ok THEN SegmentNew ELSE es.cells
             /\ Returns(eb.out \o es.out, IF es.ok THEN "Ok" ELSE "Err")

\* The calls of `calls` the sink accepts before it fails at call f.
Accepted(calls, f) ==
    IF Accepts(f, Len(calls)) THEN calls ELSE SubSeq(calls, 1, f - 1)

\* Canvas::clear of grid/src/canvas.rs: empty both containers, then
\* position the cursor, clear the whole screen and flush.
clear_grid(f) ==
    LET calls == <<Goto(1, TOOLBAR_BOUNDARY), ClearAll, Flush>>
    IN  /\ base' = << >>
        /\ sketch' = SegmentNew
        /\ Returns(Accepted(calls, f), IF Accepts(f, Len(calls)) THEN "Ok" ELSE "Err")

\* Canvas::clear
clear(f) ==
    /\ IF variant = "tui" THEN clear_tui(f) ELSE clear_grid(f)
    /\ Called("clear", PointDefault)
    /\ UNCHANGED <<variant, style, overlay, cursor>>

\* Canvas::init of grid/src/canvas.rs: clear the screen, hide the cursor,
\* flush.
init(f) ==
    LET calls == <<ClearAll, CursorHide, Flush>>
    IN  /\ variant = "grid"
        /\ Returns(Accepted(calls, f), IF Accepts(f, Len(calls)) THEN "Ok" ELSE "Err")
        /\ Called("init", PointDefault)
        /\ UNCHANGED <<variant, style, base, overlay, sketch, cursor>>

\* Mutant of drop: the cursor sequence of init is written.
drop_cursor_hidden(f) ==
    LET calls == <<ClearAll, Goto(1, 1), CursorHide>>
    IN  /\ variant = "grid"
        /\ Returns(Accepted(calls, f), IF Accepts(f, Len(calls)) THEN "Ok" ELSE "Panic")
        /\ Called("drop", PointDefault)
        /\ UNCHANGED <<variant, style, base, overlay, sketch, cursor>>

\* impl Drop for Canvas of grid/src/canvas.rs: clear the screen, move the
\* cursor to (1, 1), show the cursor; no flush; a failed write panics.
drop(f) ==
    LET calls == <<ClearAll, Goto(1, 1), CursorShow>>
    IN  /\ variant = "grid"
        /\ Returns(Accepted(calls, f), IF Accepts(f, Len(calls)) THEN "Ok" ELSE "Panic")
        /\ Called("drop", PointDefault)
        /\ UNCHANGED <<variant, style, base, overlay, sketch, cursor>>

Next ==
    \/ \E o \in Overlays : pin(o)
    \/ \E s \in Styles : alt_style(s)
    \/ \E p \in PressPoints : update_Press(p)
    \/ \E p \in DragPoints, f \in FailAt : update_Drag(p, f)
    \/ update_Release
    \/ \E f \in FailAt : draw(f)
    \/ \E f \in FailAt : undo(f)
    \/ \E f \in FailAt : clear(f)
    \/ \E f \in FailAt : init(f)
    \/ \E f \in FailAt : drop(f)

Spec == Init /\ [][Next]_vars

\* ------------------------------------------- Tracer::connect, step by step
Abs(n) == IF n < 0 THEN 0 - n ELSE n

Coords == (0..Near) \cup ((U16 - 1 - Near)..(U16 - 1))

TracePoints == {Point(x, y) : x \in Coords, y \in Coords}

\* A unit move that left the u16 range: the coordinate wrapped around.
Wrapped(before, after) ==
    Abs(after.x - before.x) > 1 \/ Abs(after.y - before.y) > 1

\* connect(from, to) is entered: segment empty, cursor = from.
TracerInit ==
    /\ variant = "tui"
    /\ style = "Plot"
    /\ base = << >>
    /\ overlay = SegmentNew
    /\ sketch = SegmentNew
    /\ cursor = PointDefault
    /\ term = BlankScreen
    /\ out = << >>
    /\ result = "Ok"
    /\ op = Op("new", PointDefault)
    /\ ops = 0
    /\ block = BlockIdle
    /\ \E p \in TracePoints, q \in TracePoints :
          /\ Abs(p.x - q.x) <= Near
          /\ Abs(p.y - q.y) <= Near
          /\ tracer = [pc |-> "loop", from |-> p, to |-> q, cursor |-> p,
                       segment |-> SegmentNew, slots |-> << >>, iters |-> 0,
                       wrapped |-> FALSE]

\* One iteration of `while cursor != to`. A move out of the u16 range wraps
\* in a release build and panics in a debug build.
connect_iterate ==
    /\ tracer.pc = "loop"
    /\ tracer.cursor # tracer.to
    /\ LET moved == connect_step(tracer.cursor, tracer.to)
           after == [tracer EXCEPT
                        !.cursor = moved,
                        !.segment = add(@, Cell(moved, next(tracer.cursor, moved))),
                        !.slots = Append(@, next_slot(tracer.cursor, moved)),
                        !.iters = @ + 1,
                        !.wrapped = @ \/ Wrapped(tracer.cursor, moved)]
       IN  IF Wrapped(tracer.cursor, moved)
           THEN tracer' \in {after, [after EXCEPT !.pc = "panic"]}
           ELSE tracer' = after
    /\ UNCHANGED <<canvasVars, block>>

\* The loop condition is false: connect returns the segment.
connect_return ==
    /\ tracer.pc = "loop"
    /\ tracer.cursor = tracer.to
    /\ tracer' = [tracer EXCEPT !.pc = "done"]
    /\ UNCHANGED <<canvasVars, block>>

TracerNext == connect_iterate \/ connect_return

SpecTracer == TracerInit /\ [][TracerNext]_vars

\* ------------------------------------------- From<Segment> for String
Min(S) == CHOOSE n \in S : \A m \in S : n <= m

\* Segment::boundaries: None (here: no corners), or the min and max corners.
boundaries(segment) ==
    IF segment = << >> THEN [some |-> FALSE, start |-> PointDefault, end |-> PointDefault]
    ELSE [some |-> TRUE,
          start |-> Point(Min({segment[i].pos.x : i \in 1..Len(segment)}),
                          Min({segment[i].pos.y : i \in 1..Len(segment)})),
          end |-> Point(Max({segment[i].pos.x : i \in 1..Len(segment)}),
                        Max({segment[i].pos.y : i \in 1..Len(segment)}))]

\* segment.cells.iter().find(|cell| cell.pos == cursor), then its content or ' '.
RECURSIVE find_content(_, _)
find_content(cells, pos) ==
    IF cells = << >> THEN " "
    ELSE IF Head(cells).pos = pos THEN Head(cells).content
    ELSE find_content(Tail(cells), pos)

\* while cursor.x <= end.x { push; cursor.move_right() }
RECURSIVE block_row(_, _, _, _)
block_row(cur, end, cells, output) ==
    IF ~(cur.x <= end.x) THEN [output |-> output, overflow |-> FALSE]
    ELSE LET pushed == Append(output, find_content(cells, cur))
             moved == move_right(cur)
         IN  IF Wrapped(cur, moved) THEN [output |-> pushed, overflow |-> TRUE]
             ELSE block_row(moved, end, cells, pushed)

\* while cursor.y <= end.y { cursor.move_to(start.x, cursor.y); row; push '\n';
\* cursor.move_down() }
RECURSIVE block_rows(_, _, _, _, _)
block_rows(cur, start, end, cells, output) ==
    IF ~(cur.y <= end.y) THEN [output |-> output, overflow |-> FALSE]
    ELSE LET row == block_row(move_to(cur, start.x, cur.y), end, cells, output)
             moved == move_down(cur)
         IN  IF row.overflow THEN row
             ELSE IF Wrapped(cur, moved)
                  THEN [output |-> Append(row.output, "\n"), overflow |-> TRUE]
                  ELSE block_rows(moved, start, end, cells, Append(row.output, "\n"))

\* impl From<Segment> for String. overflow: a cursor move left the u16 range.
to_string(segment) ==
    LET b == boundaries(segment)
    IN  IF ~b.some THEN [output |-> << >>, overflow |-> FALSE]
        ELSE block_rows(b.start, b.start, b.end, segment, << >>)

BlockOrigins == {Point(1, 1), Point(U16 - 1 - Span, 1), Point(1, U16 - 1 - Span)}

BlockGlyphs == {"a", "b"}

\* The segments converted: up to MaxCells cells within Span of one origin.
BlockCells(origin) ==
    {Cell(Point(origin.x + dx, origin.y + dy), g) :
        dx \in 0..Span, dy \in 0..Span, g \in BlockGlyphs}

BlockSegments ==
    UNION {UNION {[1..n -> BlockCells(origin)] : n \in 0..MaxCells} :
           origin \in BlockOrigins}

BlockInit ==
    /\ variant = "tui"
    /\ style = "Plot"
    /\ base = << >>
    /\ overlay = SegmentNew
    /\ sketch = SegmentNew
    /\ cursor = PointDefault
    /\ term = BlankScreen
    /\ out = << >>
    /\ result = "Ok"
    /\ op = Op("new", PointDefault)
    /\ ops = 0
    /\ tracer = TracerIdle
    /\ \E segment \in BlockSegments :
          block = [pc |-> "start", segment |-> segment, output |-> << >>]

\* String::from(segment). A cursor move out of the u16 range panics in a
\* debug build; in a release build the cursor wraps to 0 and the loop
\* condition stays true: the conversion never returns.
string_from ==
    /\ block.pc = "start"
    /\ LET made == to_string(block.segment)
       IN  IF made.overflow
           THEN \E outcome \in {"panic", "hang"} :
                    block' = [block EXCEPT !.pc = outcome, !.output = made.output]
           ELSE block' = [block EXCEPT !.pc = "done", !.output = made.output]
    /\ UNCHANGED <<canvasVars, tracer>>

BlockNext == string_from

SpecBlock == BlockInit /\ [][BlockNext]_vars

\* ------------------------------------------------------- claim vocabulary
Positions(segment) == [i \in 1..Len(segment) |-> segment[i].pos]

\* The sink calls that blank every cell of a segment, in order.
Blanks(segment) ==
    [i \in 1..Len(segment) |-> [op |-> "put", pos |-> segment[i].pos, ch |-> " "]]

IsPrefix(a, b) == Len(a) <= Len(b) /\ a = SubSeq(b, 1, Len(a))

\* Everything the Canvas holds, in rendering order.
Held == Flatten(base) \o sketch \o overlay

\* The glyph of the last held cell at a position, blank if there is none.
Visible(p) ==
    LET at == {i \in 1..Len(Held) : Held[i].pos = p}
    IN  IF at = {} THEN " " ELSE Held[Max(at)].content

\* C1: after a successful draw() every position of the terminal shows the
\* glyph of the last cell at that position in the order base, sketch,
\* overlay, and blank where base, sketch and overlay hold no cell.
C1_TerminalConsistent ==
    (op.name = "draw" /\ result = "Ok") => \A p \in Screen : term[p] = Visible(p)

\* Witness of the stale glyph behind C1: a pinned overlay was drawn, then
\* replaced by pin, and a later successful draw() left its glyph on screen.
C1_StaleOverlay ==
    /\ op.name = "draw" /\ result = "Ok"
    /\ base = << >> /\ sketch = << >> /\ overlay = << >>
    /\ term[Point(6, 5)] = "A"

\* C2: in Plot style an accepted drag (y >= 3) appends connect(cursor, p) to
\* sketch, keeping every earlier cell in place, moves cursor to p and leaves
\* base and overlay alone; on a fresh Canvas Press(5,5), Drag(8,5) leaves
\* sketch = cells at (6,5), (7,5), (8,5) and cursor = (8,5).
C2_PlotDragAppends ==
    [][/\ (op'.name = "drag" /\ style = "Plot" /\ op'.pos.y >= 3) =>
            /\ sketch' = sketch \o connect(cursor, op'.pos)
            /\ IsPrefix(sketch, sketch')
            /\ cursor' = op'.pos
            /\ UNCHANGED <<base, overlay>>
       /\ (ops = 1 /\ op = Op("press", Point(5, 5)) /\ op' = Op("drag", Point(8, 5))) =>
            /\ Positions(sketch') = <<Point(6, 5), Point(7, 5), Point(8, 5)>>
            /\ cursor' = Point(8, 5)
      ]_vars

C2_Witness ==
    /\ ops = 2 /\ op = Op("drag", Point(8, 5)) /\ style = "Plot"
    /\ Positions(sketch) = <<Point(6, 5), Point(7, 5), Point(8, 5)>>
    /\ cursor = Point(8, 5)
    /\ base = << >>

\* C3: in Line style an accepted drag (y >= 3) never moves cursor, and when
\* it returns Ok sketch is exactly connect(cursor, p): nothing of the earlier
\* sketch is kept, so sketch is the trace from the pressed anchor to the
\* latest drag position.
C3_LineDragReplaces ==
    [][(op'.name = "drag" /\ style = "Line" /\ op'.pos.y >= 3) =>
            /\ cursor' = cursor
            /\ result' = "Ok" => sketch' = connect(cursor, op'.pos)
            /\ (result' = "Ok" /\ op.name \in {"press", "drag"} /\ op'.pos # cursor) =>
                   /\ Len(sketch') = Max({Max({cursor.x - op'.pos.x, op'.pos.x - cursor.x}),
                                          Max({cursor.y - op'.pos.y, op'.pos.y - cursor.y})})
                   /\ sketch'[Len(sketch')].pos = op'.pos
      ]_vars

\* Press(2,5), Drag(6,5), Drag(6,8) in Line style: the anchor is still (2,5)
\* and sketch is the 4-cell trace from (2,5) to (6,8).
C3_Witness ==
    /\ op = Op("drag", Point(6, 8)) /\ style = "Line" /\ result = "Ok"
    /\ cursor = Point(2, 5)
    /\ Positions(sketch) = <<Point(3, 6), Point(4, 7), Point(5, 8), Point(6, 8)>>
    /\ Positions(out) = <<Point(3, 5), Point(4, 5), Point(5, 5), Point(6, 5)>>

\* C4: in Line style an accepted drag writes to the sink only blanks, at the
\* positions of the cells sketch held before the event and in their order
\* (all of them when the call returns Ok); the cells of the new line are not
\* written by the drag: a glyph other than blank reaches the sink only in
\* draw().
C4_LineDragErasesFirst ==
    [][/\ (op'.name = "drag" /\ style = "Line" /\ op'.pos.y >= 3) =>
            /\ IsPrefix(out', Blanks(sketch))
            /\ result' = "Ok" => out' = Blanks(sketch)
       /\ (\E i \in 1..Len(out') : out'[i].op = "put" /\ out'[i].ch # " ") =>
            op'.name = "draw"
       /\ (op'.name = "draw" /\ result' = "Ok") =>
            \A i \in 1..Len(sketch) : \E j \in 1..Len(out') : out'[j] = Put(sketch[i])
      ]_vars

\* The second drag of Press(2,5), Drag(6,5), Drag(6,8) blanked the first line.
C4_Witness ==
    /\ op = Op("drag", Point(6, 8)) /\ style = "Line" /\ result = "Ok"
    /\ out = Blanks(connect(Point(2, 5), Point(6, 5)))
    /\ Len(out) = 4
    /\ sketch # << >>

\* C5: Release appends the sketch as the last element of base, empties
\* sketch and leaves cursor, overlay and style alone; after Press(5,5),
\* Drag(8,5), Release on a fresh Canvas base has length 1 and sketch is empty.
C5_ReleaseCommits ==
    [][/\ op'.name = "release" =>
            /\ base' = Append(base, sketch)
            /\ sketch' = << >>
            /\ UNCHANGED <<cursor, overlay, style>>
       /\ (ops = 2 /\ op = Op("drag", Point(8, 5)) /\ cursor = Point(8, 5)
           /\ Len(sketch) = 3 /\ op'.name = "release") =>
            Len(base') = 1 /\ sketch' = << >>
      ]_vars

C5_Witness ==
    /\ ops = 3 /\ op.name = "release"
    /\ Len(base) = 1
    /\ Positions(base[1]) = <<Point(6, 5), Point(7, 5), Point(8, 5)>>
    /\ sketch = << >>

\* C6: base is in commit order and undo is LIFO: Release puts the committed
\* segment at the end of base, and undo on a non-empty base removes exactly
\* the last element, keeps the earlier ones in order, writes only blanks at
\* the cells of the removed segment (all of them when it returns Ok) and
\* leaves sketch, overlay, cursor and style alone.
C6_UndoIsLifo ==
    [][/\ (op'.name = "undo" /\ base # << >>) =>
            /\ base' = SubSeq(base, 1, Len(base) - 1)
            /\ IsPrefix(out', Blanks(base[Len(base)]))
            /\ result' = "Ok" => out' = Blanks(base[Len(base)])
            /\ UNCHANGED <<sketch, overlay, cursor, style>>
       /\ op'.name = "release" =>
            /\ IsPrefix(base, base')
            /\ Len(base') = Len(base) + 1
            /\ base'[Len(base')] = sketch
      ]_vars

\* Two non-empty strokes were committed and undo removed the second one.
C6_Witness ==
    /\ ops = 5 /\ op.name = "undo" /\ result = "Ok"
    /\ Len(base) = 1
    /\ Positions(base[1]) = <<Point(2, 2), Point(3, 3)>>
    /\ Positions(out) = <<Point(4, 4), Point(5, 5), Point(6, 5)>>

\* C7: undo on an empty base returns Ok, makes no sink call and changes
\* nothing of base, sketch, overlay, cursor, style or the terminal, also
\* when the sink would fail.
C7_UndoEmptyIsNoop ==
    [][(op'.name = "undo" /\ base = << >>) =>
            /\ result' = "Ok"
            /\ out' = << >>
            /\ UNCHANGED <<base, sketch, overlay, cursor, style, term>>
      ]_vars

\* undo as the first operation on a fresh Canvas.
C7_Witness ==
    /\ ops = 1 /\ op.name = "undo"
    /\ result = "Ok" /\ out = << >> /\ base = << >>

\* C8: a drag with y < 3 is ignored in either style: it returns Ok, makes no
\* sink call and leaves cursor, sketch, base, overlay and style alone; a drag
\* with y = 3 is not ignored: when it returns Ok the stroke ends at its
\* position.
C8_DragInMarginIgnored ==
    [][/\ (op'.name = "drag" /\ op'.pos.y < 3) =>
            /\ result' = "Ok"
            /\ out' = << >>
            /\ UNCHANGED <<cursor, sketch, base, overlay, style, term>>
       /\ (op'.name = "drag" /\ op'.pos.y = 3 /\ op'.pos # cursor /\ result' = "Ok") =>
            /\ sketch' # << >>
            /\ sketch'[Len(sketch')].pos = op'.pos
            /\ style = "Plot" => cursor' = op'.pos
      ]_vars

\* A Line-style drag into the reserved rows with a stroke in progress.
C8_Witness ==
    /\ op = Op("drag", Point(6, 2)) /\ style = "Line"
    /\ sketch # << >> /\ out = << >> /\ result = "Ok"
    /\ cursor.y >= 3

\* C9: no cell of sketch or of a segment of base lies in the reserved rows
\* (y < 3).
C9_MarginExcluded ==
    \A i \in 1..Len(Flatten(base) \o sketch) : (Flatten(base) \o sketch)[i].pos.y >= 3

\* C10: clear leaves overlay, cursor and style alone; when it returns Ok,
\* base and sketch are empty and the terminal is blank at the position of
\* every cell they held (the tui Canvas writes exactly one blank per cell,
\* base first, then sketch); a successful draw() right after a successful
\* clear writes exactly the overlay.
C10_ClearErasesAndEmpties ==
    [][/\ op'.name = "clear" =>
            /\ UNCHANGED <<overlay, cursor, style>>
            /\ result' = "Ok" =>
                 /\ base' = << >> /\ sketch' = << >>
                 /\ \A i \in 1..Len(Flatten(base) \o sketch) :
                        term'[(Flatten(base) \o sketch)[i].pos] = " "
                 /\ variant = "tui" => out' = Blanks(Flatten(base) \o sketch)
       /\ (op.name = "clear" /\ result = "Ok" /\ op'.name = "draw" /\ result' = "Ok") =>
            /\ out' = [i \in 1..Len(overlay) |-> Put(overlay[i])] \o <<Flush>>
            /\ \A i \in 1..Len(overlay) : term'[overlay[i].pos] = overlay[i].content
      ]_vars

\* clear on the tui Canvas with a committed stroke, a stroke in progress and
\* a pinned overlay.
C10_Witness ==
    /\ op.name = "clear" /\ result = "Ok" /\ variant = "tui"
    /\ base = << >> /\ sketch = << >> /\ overlay # << >>
    /\ Positions(out) = <<Point(2, 2), Point(3, 3), Point(4, 4), Point(5, 5), Point(6, 5)>>

\* C11: the overlay is changed by pin only; pin makes no sink call and
\* leaves base, sketch, cursor and the terminal alone; base (what snapshot
\* returns) grows only by a Release, which appends the sketch, so no segment
\* of base was put there by pin.
C11_OverlayOutsideHistory ==
    [][/\ op'.name # "pin" => overlay' = overlay
       /\ op'.name = "pin" =>
            /\ out' = << >> /\ result' = "Ok"
            /\ UNCHANGED <<base, sketch, cursor, term>>
       /\ \A i \in 1..Len(snapshot') :
            \/ i <= Len(snapshot) /\ Positions(snapshot'[i]) = Positions(snapshot[i])
            \/ op'.name = "release" /\ i = Len(snapshot) + 1 /\ snapshot'[i] = sketch
      ]_vars

\* pin called while a stroke is committed and another one is in progress.
C11_Witness ==
    /\ op.name = "pin" /\ overlay # << >>
    /\ base # << >> /\ base[1] # << >> /\ sketch # << >>
    /\ out = << >>
    /\ \A i \in 1..Len(base) : base[i] # overlay

\* The sink calls that write every cell of a segment, in order.
Puts(segment) == [i \in 1..Len(segment) |-> Put(segment[i])]

\* C12: draw changes nothing of base, sketch, overlay or cursor; its sink
\* calls are the cells of base in commit order, then of sketch, then of
\* overlay, then one flush (a prefix of that sequence when the sink fails);
\* after a successful draw every position of an overlay cell shows the
\* overlay's glyph.
C12_DrawOrder ==
    [][op'.name = "draw" =>
            /\ UNCHANGED <<base, sketch, overlay, cursor>>
            /\ IsPrefix(out', Puts(Flatten(base)) \o Puts(sketch) \o Puts(overlay) \o <<Flush>>)
            /\ result' = "Ok" =>
                 /\ out' = Puts(Flatten(base)) \o Puts(sketch) \o Puts(overlay) \o <<Flush>>
                 /\ \A i \in 1..Len(overlay) :
                        \E j \in i..Len(overlay) :
                            /\ overlay[j].pos = overlay[i].pos
                            /\ term'[overlay[i].pos] = overlay[j].content
            /\ \A i \in 1..Len(out') : out'[i] = Flush => (i = Len(out') /\ result' = "Ok")
      ]_vars

\* A successful draw with the overlay pinned over the stroke in progress: the
\* overlay's glyph is what the terminal shows at the shared position.
C12_Witness ==
    /\ op.name = "draw" /\ result = "Ok"
    /\ overlay # << >>
    /\ \E i \in 1..Len(sketch) : sketch[i].pos = Point(6, 5) /\ sketch[i].content # " "
    /\ term[Point(6, 5)] = "A"
    /\ out[Len(out)] = Flush

\* Chebyshev distance of two points.
Cheb(p, q) == Max({Abs(p.x - q.x), Abs(p.y - q.y)})

\* C13: connect(P, Q) leaves its loop after exactly max(|dx|, |dy|)
\* iterations with exactly that many cells (one per iteration), which is the
\* segment connect returns; connect(P, P) returns the empty segment.
C13_ConnectLength ==
    tracer.pc # "idle" =>
        /\ tracer.iters <= Cheb(tracer.from, tracer.to)
        /\ Len(tracer.segment) = tracer.iters
        /\ (tracer.iters = Cheb(tracer.from, tracer.to)) = (tracer.cursor = tracer.to)
        /\ tracer.pc # "panic"
        /\ tracer.pc = "done" =>
             /\ tracer.iters = Cheb(tracer.from, tracer.to)
             /\ tracer.segment = connect(tracer.from, tracer.to)
             /\ tracer.from = tracer.to => tracer.segment = SegmentNew

\* connect((1,1), (4,3)) has returned after 3 iterations.
C13_Witness ==
    /\ tracer.pc = "done"
    /\ tracer.from = Point(1, 1) /\ tracer.to = Point(4, 3)
    /\ tracer.iters = 3 /\ Len(tracer.segment) = 3

\* The position the cursor had before it moved into cell i of the trace.
TraceBefore(i) == IF i = 1 THEN tracer.from ELSE tracer.segment[i - 1].pos

\* C14: for a step along one axis the slot of the char set follows the
\* direction of the move: x unchanged and y decreased selects "up", y
\* increased "down"; y unchanged and x decreased selects "left", x increased
\* "right".
C14_SlotFollowsDirection ==
    \A i \in 1..Len(tracer.segment) :
        LET before == TraceBefore(i)
            after == tracer.segment[i].pos
        IN  /\ (after.x = before.x /\ after.y < before.y) => tracer.slots[i] = "up"
            /\ (after.x = before.x /\ after.y > before.y) => tracer.slots[i] = "down"
            /\ (after.y = before.y /\ after.x < before.x) => tracer.slots[i] = "left"
            /\ (after.y = before.y /\ after.x > before.x) => tracer.slots[i] = "right"

\* What the code does instead: the slots of opposite directions are
\* exchanged (a step that increases y selects "up", one that increases x
\* selects "left").
C14_SlotsExchanged ==
    \A i \in 1..Len(tracer.segment) :
        LET before == TraceBefore(i)
            after == tracer.segment[i].pos
        IN  /\ (after.x = before.x /\ after.y < before.y) => tracer.slots[i] = "down"
            /\ (after.x = before.x /\ after.y > before.y) => tracer.slots[i] = "up"
            /\ (after.y = before.y /\ after.x < before.x) => tracer.slots[i] = "right"
            /\ (after.y = before.y /\ after.x > before.x) => tracer.slots[i] = "left"

\* C15: with the default char set a cell carries '_' if the step into it
\* changed only x, '|' if it changed only y, '\' if x and y changed with the
\* same sign, '/' if they changed with opposite signs, and never '.';
\* connect((1,1), (4,1)) is (2,1), (3,1), (4,1), each with '_'.
C15_DefaultGlyphs ==
    /\ \A i \in 1..Len(tracer.segment) :
        LET dx == tracer.segment[i].pos.x - TraceBefore(i).x
            dy == tracer.segment[i].pos.y - TraceBefore(i).y
            glyph == tracer.segment[i].content
        IN  /\ (dx # 0 /\ dy = 0) => glyph = "_"
            /\ (dx = 0 /\ dy # 0) => glyph = "|"
            /\ (dx * dy > 0) => glyph = "\\"
            /\ (dx * dy < 0) => glyph = "/"
            /\ glyph # "."
    /\ (tracer.pc = "done" /\ tracer.from = Point(1, 1) /\ tracer.to = Point(4, 1)) =>
        tracer.segment = <<Cell(Point(2, 1), "_"), Cell(Point(3, 1), "_"),
                           Cell(Point(4, 1), "_")>>

\* connect((4,1), (1,4)) has returned: three steps with opposite signs.
C15_Witness ==
    /\ tracer.pc = "done"
    /\ tracer.from = Point(4, 1) /\ tracer.to = Point(1, 4)
    /\ tracer.segment = <<Cell(Point(3, 2), "/"), Cell(Point(2, 3), "/"),
                          Cell(Point(1, 4), "/")>>

\* C20: for P # Q the cells of connect(P, Q) form a path from P to Q inside
\* the rectangle spanned by P and Q: P is not in it, every cell is at
\* Chebyshev distance 1 from the position before it, the last cell is at Q;
\* no move leaves the u16 range (no decrement of 0, no increment of 65535).
C20_PathInsideRectangle ==
    /\ ~tracer.wrapped
    /\ tracer.pc # "panic"
    /\ \A i \in 1..Len(tracer.segment) :
        LET pos == tracer.segment[i].pos
        IN  /\ Cheb(TraceBefore(i), pos) = 1
            /\ pos # tracer.from
            /\ pos.x >= 0 /\ pos.x < U16 /\ pos.y >= 0 /\ pos.y < U16
            /\ (tracer.from.x <= pos.x /\ pos.x <= tracer.to.x)
               \/ (tracer.to.x <= pos.x /\ pos.x <= tracer.from.x)
            /\ (tracer.from.y <= pos.y /\ pos.y <= tracer.to.y)
               \/ (tracer.to.y <= pos.y /\ pos.y <= tracer.from.y)
    /\ (tracer.pc = "done" /\ tracer.from # tracer.to) =>
        /\ tracer.segment # SegmentNew
        /\ tracer.segment[Len(tracer.segment)].pos = tracer.to

\* connect((0,65535), (4,65531)) has returned: a trace that starts on the
\* edges of the u16 range.
C20_Witness ==
    /\ tracer.pc = "done"
    /\ tracer.from = Point(0, U16 - 1) /\ tracer.to = Point(4, U16 - 5)
    /\ Positions(tracer.segment) =
         <<Point(1, U16 - 2), Point(2, U16 - 3), Point(3, U16 - 4), Point(4, U16 - 5)>>

\* The glyph of the first cell of a segment at a position, blank if none.
FirstAt(segment, p) ==
    LET at == {i \in 1..Len(segment) : segment[i].pos = p}
    IN  IF at = {} THEN " " ELSE segment[Min(at)].content

\* The text block of a segment: rows minY..maxY, each the glyphs of columns
\* minX..maxX followed by a line break.
BlockOf(segment) ==
    LET xs == {segment[i].pos.x : i \in 1..Len(segment)}
        ys == {segment[i].pos.y : i \in 1..Len(segment)}
        w == Max(xs) - Min(xs) + 1
        h == Max(ys) - Min(ys) + 1
    IN  [k \in 1..(h * (w + 1)) |->
            IF k % (w + 1) = 0 THEN "\n"
            ELSE FirstAt(segment, Point(Min(xs) + (k % (w + 1)) - 1,
                                        Min(ys) + ((k - 1) \div (w + 1))))]

\* C16: the conversion of a non-empty segment returns (maxY - minY + 1) rows
\* of (maxX - minX + 1) glyphs each, row-major over the bounding box of
\* boundaries(), blank where no cell lies and the first cell's glyph where
\* several do; an empty segment has no boundaries and gives the empty string.
C16_BlockSerialization ==
    (block.pc # "idle" /\ block.pc # "start") =>
        /\ block.pc = "done"
        /\ block.segment = SegmentNew =>
             ~boundaries(block.segment).some /\ block.output = << >>
        /\ block.segment # SegmentNew =>
             /\ boundaries(block.segment).some
             /\ block.output = BlockOf(block.segment)

\* The same statement for segments whose cells all lie below the last
\* column and the last row of the u16 range.
C16_BlockBelowEdge ==
    (block.pc # "idle" /\ block.pc # "start"
     /\ \A i \in 1..Len(block.segment) :
            block.segment[i].pos.x < U16 - 1 /\ block.segment[i].pos.y < U16 - 1) =>
        /\ block.pc = "done"
        /\ block.segment = SegmentNew =>
             ~boundaries(block.segment).some /\ block.output = << >>
        /\ block.segment # SegmentNew =>
             /\ boundaries(block.segment).some
             /\ block.output = BlockOf(block.segment)

\* Two cells at one position: the block shows the first one.
C16_FirstWins ==
    /\ block.pc = "done"
    /\ block.segment = <<Cell(Point(2, 2), "a"), Cell(Point(2, 2), "b")>>
    /\ block.output = <<"a", "\n">>

\* The sink calls the operation named by op' makes, from the state before
\* it, on a sink that accepts them all.
CallsWanted ==
    IF op'.name = "draw" THEN Puts(Held) \o <<Flush>>
    ELSE IF op'.name = "undo"
         THEN IF base = << >> THEN << >> ELSE Blanks(base[Len(base)])
    ELSE IF op'.name = "clear"
         THEN IF variant = "tui" THEN Blanks(Flatten(base) \o sketch)
              ELSE <<Goto(1, TOOLBAR_BOUNDARY), ClearAll, Flush>>
    ELSE IF op'.name = "drag" /\ op'.pos.y >= TOOLBAR_BOUNDARY /\ style = "Line" THEN Blanks(sketch)
    ELSE << >>

LengthStep ==
    /\ op'.name = "release" =>
         /\ Len(base') = Len(base) + 1
         /\ base'[Len(base')] = sketch
    /\ (op'.name = "undo" /\ base # << >>) =>
         /\ Len(base') = Len(base) - 1
         /\ base[Len(base)] = SegmentNew => (out' = << >> /\ result' = "Ok")
    /\ (op'.name = "undo" /\ base = << >>) => base' = base
    /\ op'.name \notin {"release", "undo", "clear"} => Len(base') = Len(base)

\* C19: every Release adds one segment to base, empty or not, every undo on
\* a non-empty base removes one, every clear() restarts the count at zero,
\* and nothing else changes the length of base: the length of base is the
\* number of Releases minus the number of undos on a non-empty base since
\* construction or the last clear().
C19_BaseLengthCounts ==
    [][/\ LengthStep
       /\ op'.name = "clear" => Len(base') = 0]_vars

\* C19, amended: every Release adds one segment to base, empty or not, and
\* every undo on a non-empty base removes one, writing nothing when that
\* segment has no cells; the count is restarted only by a clear() that
\* emptied base: one that returned Ok, or any clear() of the grid Canvas.
\* A clear() of the tui Canvas that returned Err stopped either before
\* emptying base, whose length is then as it was, or after it.
C19_CountSinceEmptyingClear ==
    [][/\ LengthStep
       /\ op'.name = "clear" =>
            IF result' = "Ok" \/ variant = "grid"
            THEN Len(base') = 0
            ELSE Len(base') \in {0, Len(base)}]_vars

\* Press directly followed by Release: base holds one segment with no cells.
C19_Witness ==
    /\ ops = 2 /\ op.name = "release"
    /\ cursor = Point(5, 5)
    /\ base = <<SegmentNew>>

\* The terminal-restore sequence of teardown.
Restore == <<ClearAll, Goto(1, 1), CursorShow>>

====
